---- MODULE Spec2Model ----
(***************************************************************************)
(* Z80PostSelectCombiner::runOnMachineFunction and its ValLoc tracker.     *)
(* A machine function is a list of basic blocks, a block a list of         *)
(* instruction ids, an instruction a record of opcode and operands.  The   *)
(* pass walks every block once; one action models one iteration of the     *)
(* while loop (the switch case of the opcode followed by clobberDefs).     *)
(***************************************************************************)
EXTENDS Integers, Sequences, FiniteSets

\* Longest function (number of instructions) that Init enumerates.
MaxLen == 3

(***************************************************************************)
(* Registers.  llvm::Register is an unsigned number: 0 is the invalid      *)
(* register, small numbers are physical registers, stack slots and virtual *)
(* registers live in two disjoint higher ranges.                           *)
(***************************************************************************)
NoRegister == 0
A == 1
F == 2
B == 3
L == 4
HL == 5
IX == 6
SPS == 7
SPL == 8
StackSlotBase == 100
VirtRegBase == 200

index2StackSlot(FI) == StackSlotBase + FI
index2VirtReg(n) == VirtRegBase + n
isValid(Reg) == Reg # NoRegister
isPhysical(Reg) == Reg > NoRegister /\ Reg < StackSlotBase
isVirtual(Reg) == Reg >= VirtRegBase

\* The register-overlap oracle: a register overlaps itself, and L is the low
\* byte of HL.  Virtual registers and stack slots overlap only themselves.
regsOverlap(RegA, RegB) ==
    \/ RegA = RegB
    \/ isPhysical(RegA) /\ isPhysical(RegB) /\ {RegA, RegB} = {L, HL}

(***************************************************************************)
(* Operands and instructions.  An operand is a register or a number (an    *)
(* immediate or a frame index).  The first ndefs operands of an            *)
(* instruction are its explicit register definitions (MI.defs()); modF     *)
(* says whether the instruction writes the flags register F.  Operand      *)
(* numbers are 0-based in the source and 1-based here: getOperand(MI, n)   *)
(* is MI.getOperand(n).                                                    *)
(***************************************************************************)
RegOp(Reg) == [isReg |-> TRUE, reg |-> Reg, num |-> 0]
NumOp(n) == [isReg |-> FALSE, reg |-> NoRegister, num |-> n]
MkInstr(opc, ndefs, modF, ops) ==
    [opc |-> opc, ndefs |-> ndefs, modF |-> modF, ops |-> ops]
getOperand(MI, OpNo) == MI.ops[OpNo + 1]
removeOperand0(ops) == SubSeq(ops, 2, Len(ops))
defs(MI) == {MI.ops[i].reg : i \in 1..MI.ndefs}

\* The virtual register pushed by the pushes of the enumerated functions.
V24 == index2VirtReg(0)

\* The instructions Init builds functions from.
Alphabet ==
    { MkInstr("ADD8ar", 0, TRUE, <<RegOp(B)>>),
      MkInstr("OR8ar", 0, TRUE, <<RegOp(A)>>),
      MkInstr("INC8r", 1, TRUE, <<RegOp(B), RegOp(B)>>),
      MkInstr("INC8p", 0, TRUE, <<RegOp(HL)>>),
      MkInstr("INC8o", 0, TRUE, <<RegOp(IX), NumOp(1)>>),
      MkInstr("CP8ar", 0, TRUE, <<RegOp(B)>>),
      MkInstr("COPY", 1, FALSE, <<RegOp(A), RegOp(B)>>),
      MkInstr("COPY", 1, FALSE, <<RegOp(L), RegOp(A)>>),
      MkInstr("COPY", 1, FALSE, <<RegOp(SPL), RegOp(HL)>>),
      MkInstr("COPY", 1, FALSE, <<RegOp(SPS), RegOp(HL)>>),
      MkInstr("LD8rp", 1, FALSE, <<RegOp(B), RegOp(HL)>>),
      MkInstr("LD8ro", 1, FALSE, <<RegOp(B), RegOp(IX), NumOp(1)>>),
      MkInstr("LD8pr", 0, FALSE, <<RegOp(HL), RegOp(A)>>),
      MkInstr("LD8pr", 0, FALSE, <<RegOp(HL), RegOp(B)>>),
      MkInstr("LD8or", 0, FALSE, <<RegOp(IX), NumOp(1), RegOp(A)>>),
      MkInstr("LEA24ro", 1, FALSE, <<RegOp(V24), RegOp(IX), NumOp(0)>>),
      MkInstr("LEA24ro", 1, FALSE, <<RegOp(V24), RegOp(IX), NumOp(5)>>),
      MkInstr("LEA24ro", 1, FALSE, <<RegOp(V24), NumOp(0), NumOp(0)>>),
      MkInstr("LD24ri", 1, FALSE, <<RegOp(V24), NumOp(0)>>),
      MkInstr("PUSH24r", 0, FALSE, <<RegOp(V24)>>) }

(***************************************************************************)
(* ValLoc                                                                  *)
(***************************************************************************)
ValLoc == [Reg |-> NoRegister, Base |-> NoRegister, Off |-> 0]

\* getBaseReg without the test of the sign of the frame index.
getBaseReg_AnyIndex(MI, OpNo) ==
    LET BaseMO == getOperand(MI, OpNo)
    IN  IF BaseMO.isReg THEN BaseMO.reg
        ELSE index2StackSlot(BaseMO.num)

getBaseReg(MI, OpNo) ==
    LET BaseMO == getOperand(MI, OpNo)
    IN  IF BaseMO.isReg THEN BaseMO.reg
        ELSE IF BaseMO.num >= 0 THEN index2StackSlot(BaseMO.num)
        ELSE NoRegister

setReg(Loc, Reg) == [Loc EXCEPT !.Reg = Reg]
setRegMI(Loc, MI, OpNo) == setReg(Loc, getOperand(MI, OpNo).reg)
setMem(Loc, Base, Off) == [Loc EXCEPT !.Base = Base, !.Off = Off]
setPtr(Loc, MI, OpNo) == setMem(Loc, getOperand(MI, OpNo).reg, 0)
setOff(Loc, MI, OpNo) ==
    setMem(Loc, getBaseReg(MI, OpNo), getOperand(MI, OpNo + 1).num)

matchesReg(Loc, Reg) == isValid(Reg) /\ Loc.Reg = Reg
matchesRegMI(Loc, MI, OpNo) == matchesReg(Loc, getOperand(MI, OpNo).reg)
matchesMem(Loc, Base, Off) ==
    isValid(Base) /\ Loc.Base = Base /\ Loc.Off = Off
matchesPtr(Loc, MI, OpNo) == matchesMem(Loc, getOperand(MI, OpNo).reg, 0)
matchesOff(Loc, MI, OpNo) ==
    matchesMem(Loc, getBaseReg(MI, OpNo), getOperand(MI, OpNo + 1).num)

clear(Loc) == ValLoc

\* clobberDefs that compares the tracked register only and by equality.
clobberDefs_RegOnly(Loc, DefRegs) ==
    IF isValid(Loc.Reg) /\ Loc.Reg \in DefRegs THEN clear(Loc) ELSE Loc

\* clobberDefs given the set of registers MI.defs() yields.
clobberDefs(Loc, DefRegs) ==
    IF \E DefReg \in DefRegs : \E LocReg \in {Loc.Reg, Loc.Base} :
           isValid(LocReg) /\ regsOverlap(DefReg, LocReg)
    THEN clear(Loc)
    ELSE Loc

(***************************************************************************)
(* What the instructions compute.  Values are symbolic: the content a      *)
(* location has when a block is entered, the result an instruction         *)
(* computes, and the content an instruction leaves in a location it        *)
(* changes as a by-product are all distinct unknowns, so two locations     *)
(* hold equal values only when a move made them equal.                     *)
(***************************************************************************)
EntryReg(blk, Reg) == <<0, blk, Reg, 0>>
EntryMem(blk, Base, Off) == <<1, blk, Base, Off>>
EntryFlags(blk) == <<2, blk, 0, 0>>
Result(id) == <<3, id, 0, 0>>
ClobReg(id, Reg) == <<4, id, Reg, 0>>
ClobMem(id, Base, Off) == <<5, id, Base, Off>>
FlagsOnly(id) == <<6, id, 0, 0>>

ValRegs == {A, B, L, HL, IX, SPS, SPL, V24}
Cells == {HL, IX, index2StackSlot(0)} \X {0, 1}

\* The machine state a block is entered with.
EntryState(blk) ==
    [val |-> [Reg \in ValRegs |-> EntryReg(blk, Reg)],
     mem |-> [c \in Cells |-> EntryMem(blk, c[1], c[2])],
     flags |-> EntryFlags(blk)]

\* Register Reg receives x: registers overlapping Reg and cells addressed
\* through them no longer hold what they held.
writeReg(st, id, Reg, x) ==
    [st EXCEPT
       !.val = [r \in ValRegs |->
                  IF r = Reg THEN x
                  ELSE IF regsOverlap(r, Reg) THEN ClobReg(id, r)
                  ELSE st.val[r]],
       !.mem = [c \in Cells |->
                  IF regsOverlap(c[1], Reg) THEN ClobMem(id, c[1], c[2])
                  ELSE st.mem[c]]]
writeMem(st, Base, Off, x) ==
    [st EXCEPT !.mem = [c \in Cells |-> IF c = <<Base, Off>> THEN x
                                        ELSE st.mem[c]]]
readReg(st, id, Reg) == IF Reg \in ValRegs THEN st.val[Reg] ELSE Result(id)
readMem(st, id, Base, Off) ==
    IF <<Base, Off>> \in Cells THEN st.mem[<<Base, Off>>] ELSE Result(id)
setFlags(st, x) == [st EXCEPT !.flags = x]

\* The opcodes of the memory-operand families whose result goes to the
\* accumulator, the memory operand being only read.
AccResultOpcodes ==
    {"ADD8ap", "ADC8ap", "SUB8ap", "SBC8ap", "AND8ap", "XOR8ap", "OR8ap",
     "ADD8ao", "ADC8ao", "SUB8ao", "SBC8ao", "AND8ao", "XOR8ao", "OR8ao"}

\* The machine state after instruction MI (of id id) has executed in st.
Exec(st, id, MI) ==
    LET op(n) == getOperand(MI, n)
        res == Result(id)
    IN  CASE MI.opc = "COPY" /\ op(0).reg = F ->
               setFlags(st, FlagsOnly(id))
          [] MI.opc = "COPY" ->
               writeReg(st, id, op(0).reg, readReg(st, id, op(1).reg))
          [] MI.opc \in {"LD8rp", "LD8gp"} ->
               writeReg(st, id, op(0).reg, readMem(st, id, op(1).reg, 0))
          [] MI.opc \in {"LD8ro", "LD8go"} ->
               writeReg(st, id, op(0).reg,
                        readMem(st, id, getBaseReg(MI, 1), op(2).num))
          [] MI.opc \in {"LD8pr", "LD8pg"} ->
               writeMem(st, op(0).reg, 0, readReg(st, id, op(1).reg))
          [] MI.opc \in {"LD8or", "LD8og"} ->
               writeMem(st, getBaseReg(MI, 0), op(1).num,
                        readReg(st, id, op(2).reg))
          [] MI.opc = "OR8ar" /\ op(0).reg = A ->
               setFlags(st, st.val[A])
          [] MI.opc \in {"OR8ar", "ADD8ar", "ADD8ai", "ADC8ar", "ADC8ai",
                         "SUB8ar", "SUB8ai", "SBC8ar", "SBC8ai", "AND8ar",
                         "AND8ai", "XOR8ar", "XOR8ai", "OR8ai"}
                 \cup AccResultOpcodes ->
               setFlags(writeReg(st, id, A, res), res)
          [] MI.opc \in {"RLC8r", "RRC8r", "RL8r", "RR8r", "SLA8r", "SRA8r",
                         "SRL8r", "INC8r", "DEC8r"} ->
               setFlags(writeReg(st, id, op(0).reg, res), res)
          [] MI.opc \in {"RLC8p", "RRC8p", "RL8p", "RR8p", "SLA8p", "SRA8p",
                         "SRL8p", "INC8p", "DEC8p"} ->
               setFlags(writeMem(st, op(0).reg, 0, res), res)
          [] MI.opc \in {"RLC8o", "RRC8o", "RL8o", "RR8o", "SLA8o", "SRA8o",
                         "SRL8o", "INC8o", "DEC8o"} ->
               setFlags(writeMem(st, getBaseReg(MI, 0), op(1).num, res), res)
          [] OTHER ->
               LET st1 == IF MI.ndefs > 0
                          THEN writeReg(st, id, op(0).reg, res) ELSE st
               IN  IF MI.modF THEN setFlags(st1, FlagsOnly(id)) ELSE st1

(***************************************************************************)
(* State                                                                   *)
(***************************************************************************)
VARIABLES
    mi,          \* instruction id -> instruction (ids are never reused)
    blocks,      \* the function: a list of blocks, each a list of ids
    mi0,         \* the instructions of the function as the pass received it
    blocks0,     \* the blocks of the function as the pass received it
    hasEZ80Ops,  \* STI.hasEZ80Ops()
    vregClass,   \* MRI: register class of virtual register n at index n + 1
    pc,          \* "loop" while the pass runs, "done" once it has returned
    b,           \* index of the block being walked (0 before the first)
    I,           \* the cursor: id of the next instruction, End at MBB.end()
    SZFlagLoc,   \* the tracker of the block being walked
    Changed,     \* the local Changed, the returned value once pc = "done"
    lastMI,      \* id of the instruction the last iteration handed to
                 \* clobberDefs (0 when the last step was not an iteration)
    dispLoc,     \* the tracker as the switch of the last iteration left it,
                 \* before clobberDefs
    machine,     \* registers, memory cells and the value the sign/zero flags
                 \* were last set from, had the walked instructions executed
    walked       \* the ids the switch has been dispatched on, in order

vars == <<mi, blocks, mi0, blocks0, hasEZ80Ops, vregClass, pc, b, I,
          SZFlagLoc, Changed, lastMI, dispLoc, machine, walked>>

End == 0

(***************************************************************************)
(* The instruction stream and MachineRegisterInfo                          *)
(***************************************************************************)
Range(s) == {s[i] : i \in 1..Len(s)}
LiveIdsOf(bs) == UNION {Range(bs[k]) : k \in 1..Len(bs)}
LiveIds == LiveIdsOf(blocks)

IndexIn(blk, id) == CHOOSE p \in 1..Len(blk) : blk[p] = id
begin(blk) == IF Len(blk) = 0 THEN End ELSE blk[1]
\* nextIter advancing by two instructions.
nextIter_Twice(blk, id) ==
    IF IndexIn(blk, id) + 1 >= Len(blk) THEN End
    ELSE blk[IndexIn(blk, id) + 2]

\* nextIter that leaves the cursor on the instruction being dispatched.
nextIter_Stay(blk, id) == id

\* ++I
nextIter(blk, id) ==
    IF IndexIn(blk, id) = Len(blk) THEN End ELSE blk[IndexIn(blk, id) + 1]

\* MachineInstr::eraseFromParent
eraseFromParent(bs, id) ==
    [k \in 1..Len(bs) |-> SelectSeq(bs[k], LAMBDA x : x # id)]

\* insertBefore that overwrites the instruction preceding id.
insertBefore_Overwrite(bs, id, NewId) ==
    [k \in 1..Len(bs) |->
        IF id \in Range(bs[k])
        THEN SubSeq(bs[k], 1, IndexIn(bs[k], id) - 2) \o <<NewId>>
             \o SubSeq(bs[k], IndexIn(bs[k], id), Len(bs[k]))
        ELSE bs[k]]

\* BuildMI(MBB, MI, ...): insert NewId immediately before id in its block
insertBefore(bs, id, NewId) ==
    [k \in 1..Len(bs) |->
        IF id \in Range(bs[k])
        THEN SubSeq(bs[k], 1, IndexIn(bs[k], id) - 1) \o <<NewId>>
             \o SubSeq(bs[k], IndexIn(bs[k], id), Len(bs[k]))
        ELSE bs[k]]

\* The use operands of Reg in the function.
useOperands(ins, bs, Reg) ==
    {<<id, i>> \in LiveIdsOf(bs) \X (1..4) :
        /\ i > ins[id].ndefs /\ i <= Len(ins[id].ops)
        /\ ins[id].ops[i].isReg /\ ins[id].ops[i].reg = Reg}
hasOneUse(Reg) == Cardinality(useOperands(mi, blocks, Reg)) = 1
defInstrs(ins, bs, Reg) == {id \in LiveIdsOf(bs) : Reg \in defs(ins[id])}
\* MRI.getVRegDef: the defining instruction, End standing for null
getVRegDef(Reg) ==
    IF defInstrs(mi, blocks, Reg) = {} THEN End
    ELSE CHOOSE id \in defInstrs(mi, blocks, Reg) : TRUE

(***************************************************************************)
(* Init: the pass is about to run on a function in SSA form.               *)
(***************************************************************************)
Funcs == UNION {[1..n -> Alphabet] : n \in 1..MaxLen}

\* Every virtual register has one definition, which precedes its uses.
IsSSA(f) ==
    /\ Cardinality({i \in 1..Len(f) : V24 \in defs(f[i])}) <= 1
    /\ \A i \in 1..Len(f) :
         (\E j \in (f[i].ndefs + 1)..Len(f[i].ops) :
              f[i].ops[j].isReg /\ f[i].ops[j].reg = V24)
         => \E d \in 1..(i - 1) : V24 \in defs(f[d])

HasPush(f) == \E i \in 1..Len(f) : f[i].opc \in {"PUSH16r", "PUSH24r"}

\* The function f cut into one block (cut = Len(f)) or two.
Layout(f, cut) ==
    IF cut = Len(f) THEN << [i \in 1..Len(f) |-> i] >>
    ELSE << [i \in 1..cut |-> i], [i \in 1..(Len(f) - cut) |-> cut + i] >>

Init ==
    /\ \E f \in Funcs : \E cut \in 1..Len(f) :
         /\ IsSSA(f)
         /\ mi = f
         /\ mi0 = f
         /\ blocks = Layout(f, cut)
         /\ blocks0 = Layout(f, cut)
         /\ hasEZ80Ops \in (IF HasPush(f) THEN BOOLEAN ELSE {TRUE})
    /\ vregClass = <<"R24">>
    /\ pc = "loop"
    /\ b = 0
    /\ I = End
    /\ SZFlagLoc = ValLoc
    /\ Changed = FALSE
    /\ lastMI = 0
    /\ dispLoc = ValLoc
    /\ machine = EntryState(0)
    /\ walked = << >>

(***************************************************************************)
(* The walk                                                                *)
(***************************************************************************)
\* EnterBlock with the tracker declared outside the loop over the blocks.
EnterBlock_KeepTracker ==
    /\ pc = "loop" /\ I = End /\ b < Len(blocks)
    /\ b' = b + 1
    /\ I' = begin(blocks[b + 1])
    /\ lastMI' = 0
    /\ machine' = EntryState(b + 1)
    /\ UNCHANGED <<mi, blocks, mi0, blocks0, hasEZ80Ops, vregClass, pc, Changed,
                   dispLoc, SZFlagLoc, walked>>

\* for (MachineBasicBlock &MBB : MF): the next block is entered with a new
\* tracker and the cursor at its first instruction.
EnterBlock ==
    /\ pc = "loop" /\ I = End /\ b < Len(blocks)
    /\ b' = b + 1
    /\ I' = begin(blocks[b + 1])
    /\ SZFlagLoc' = ValLoc
    /\ lastMI' = 0
    /\ machine' = EntryState(b + 1)
    /\ UNCHANGED <<mi, blocks, mi0, blocks0, hasEZ80Ops, vregClass, pc, Changed,
                   dispLoc, walked>>

\* while (I != E) { MachineInstr &MI = *I; ++I; switch (MI.getOpcode()) ...
AtOpcode(Opcodes) == pc = "loop" /\ I # End /\ mi[I].opc \in Opcodes
Advance ==
    /\ I' = nextIter(blocks[b], I)
    /\ lastMI' = I
    /\ machine' = Exec(machine, I, mi0[I])
    /\ walked' = Append(walked, I)
    /\ UNCHANGED <<mi0, blocks0, hasEZ80Ops, pc, b>>

\* The cases that only update the tracker: Loc is the tracker as the rule
\* of the case leaves it, then clobberDefs(MI, TRI).
TrackOnly(Loc) ==
    /\ dispLoc' = Loc
    /\ SZFlagLoc' = clobberDefs(Loc, defs(mi[I]))
    /\ Advance
    /\ UNCHANGED <<mi, blocks, vregClass, Changed>>

RuleCopy(Loc, MI) ==
    IF matchesRegMI(Loc, MI, 1) THEN setRegMI(Loc, MI, 0) ELSE Loc

\* legalizedCopy without removeOperand(0).
legalizedCopy_KeepDst(MI, DstReg, TmpReg) ==
    MkInstr(IF DstReg = SPL THEN "LD24sa" ELSE "LD16sa", 0, FALSE,
            [MI.ops EXCEPT ![1].reg = TmpReg])

\* setDesc(LD24sa / LD16sa); removeOperand(0); getOperand(0).setReg(TmpReg)
legalizedCopy(MI, DstReg, TmpReg) ==
    MkInstr(IF DstReg = SPL THEN "LD24sa" ELSE "LD16sa", 0, FALSE,
            [removeOperand0(MI.ops) EXCEPT ![1].reg = TmpReg])

DoCOPY ==
    /\ AtOpcode({"COPY"})
    /\ LET MI == mi[I]
           Loc == RuleCopy(SZFlagLoc, MI)
           DstReg == getOperand(MI, 0).reg
           TmpReg == index2VirtReg(Len(vregClass))
           NewId == Len(mi) + 1
           NewMI == legalizedCopy(MI, DstReg, TmpReg)
       IN  /\ dispLoc' = Loc
           /\ IF DstReg # SPS /\ DstReg # SPL
              THEN /\ SZFlagLoc' = clobberDefs(Loc, defs(MI))
                   /\ UNCHANGED <<mi, blocks, vregClass, Changed>>
              ELSE /\ vregClass' =
                        Append(vregClass, IF DstReg = SPL THEN "A24" ELSE "A16")
                   /\ mi' = Append([mi EXCEPT ![I] = NewMI],
                                   MkInstr("COPY", 1, FALSE,
                                           <<RegOp(TmpReg), getOperand(MI, 1)>>))
                   /\ blocks' = insertBefore(blocks, I, NewId)
                   /\ Changed' = TRUE
                   /\ SZFlagLoc' = clobberDefs(Loc, defs(NewMI))
    /\ Advance

PushOpcodes == {"PUSH16r", "PUSH24r"}

\* canFuse without the hasOneUse test.
canFuse_AnyUses(MI) ==
    LET IsPush24 == MI.opc = "PUSH24r"
        SrcReg == getOperand(MI, 0).reg
        SrcMI == getVRegDef(SrcReg)
    IN  /\ hasEZ80Ops
        /\ SrcMI # End
        /\ mi[SrcMI].opc = (IF IsPush24 THEN "LEA24ro" ELSE "LEA16ro")

\* The guard of the fusion: the three early breaks of the case.
canFuse(MI) ==
    LET IsPush24 == MI.opc = "PUSH24r"
        SrcReg == getOperand(MI, 0).reg
        SrcMI == getVRegDef(SrcReg)
    IN  /\ hasEZ80Ops
        /\ hasOneUse(SrcReg)
        /\ SrcMI # End
        /\ mi[SrcMI].opc = (IF IsPush24 THEN "LEA24ro" ELSE "LEA16ro")

\* fusedPush choosing the PEA form only when the base is no register and
\* the offset is not 0.
fusedPush_BothTests(MI, SrcMI) ==
    LET IsPush24 == MI.opc = "PUSH24r"
        BaseMO == getOperand(SrcMI, 1)
        NewOff == getOperand(SrcMI, 2).num
    IN  IF ~BaseMO.isReg /\ NewOff # 0
        THEN MkInstr(IF IsPush24 THEN "PEA24o" ELSE "PEA16o", 0, FALSE,
                     removeOperand0(MI.ops) \o <<BaseMO, NumOp(NewOff)>>)
        ELSE [MI EXCEPT !.ops[1].reg = BaseMO.reg]

\* The push after the fusion with the LEA SrcMI.
fusedPush(MI, SrcMI) ==
    LET IsPush24 == MI.opc = "PUSH24r"
        BaseMO == getOperand(SrcMI, 1)
        NewOff == getOperand(SrcMI, 2).num
    IN  IF ~BaseMO.isReg \/ NewOff # 0
        THEN MkInstr(IF IsPush24 THEN "PEA24o" ELSE "PEA16o", 0, FALSE,
                     removeOperand0(MI.ops) \o <<BaseMO, NumOp(NewOff)>>)
        ELSE [MI EXCEPT !.ops[1].reg = BaseMO.reg]

DoPUSH ==
    /\ AtOpcode(PushOpcodes)
    /\ LET MI == mi[I]
           SrcMI == getVRegDef(getOperand(MI, 0).reg)
       IN  IF canFuse(MI)
           THEN /\ mi' = [mi EXCEPT ![I] = fusedPush(MI, mi[SrcMI])]
                /\ blocks' = eraseFromParent(blocks, SrcMI)
                /\ Changed' = TRUE
                /\ SZFlagLoc' = clobberDefs(SZFlagLoc, defs(fusedPush(MI, mi[SrcMI])))
           ELSE /\ SZFlagLoc' = clobberDefs(SZFlagLoc, defs(MI))
                /\ UNCHANGED <<mi, blocks, Changed>>
    /\ dispLoc' = SZFlagLoc
    /\ Advance
    /\ UNCHANGED vregClass

RuleLoadPtr(Loc, MI) ==
    IF matchesPtr(Loc, MI, 1) THEN setRegMI(Loc, MI, 0) ELSE Loc
RuleLoadOff(Loc, MI) ==
    IF matchesOff(Loc, MI, 1) THEN setRegMI(Loc, MI, 0) ELSE Loc
RuleStorePtr(Loc, MI) ==
    IF matchesRegMI(Loc, MI, 1) THEN setPtr(Loc, MI, 0) ELSE Loc
RuleStoreOff(Loc, MI) ==
    IF matchesRegMI(Loc, MI, 2) THEN setOff(Loc, MI, 0) ELSE Loc
RuleAcc(Loc, MI) == setReg(Loc, A)
RuleReg(Loc, MI) == setRegMI(Loc, MI, 0)
RulePtr(Loc, MI) == setPtr(Loc, MI, 0)
RuleOff(Loc, MI) == setOff(Loc, MI, 0)
RuleDefault(Loc, MI) == IF MI.modF THEN clear(Loc) ELSE Loc

AccOpcodes ==
    {"ADD8ar", "ADD8ai", "ADC8ar", "ADC8ai", "SUB8ar", "SUB8ai", "SBC8ar",
     "SBC8ai", "AND8ar", "AND8ai", "XOR8ar", "XOR8ai", "OR8ai"}
RegOpcodes ==
    {"RLC8r", "RRC8r", "RL8r", "RR8r", "SLA8r", "SRA8r", "SRL8r", "INC8r",
     "DEC8r"}
PtrOpcodes ==
    {"ADD8ap", "ADC8ap", "SUB8ap", "SBC8ap", "AND8ap", "XOR8ap", "OR8ap",
     "RLC8p", "RRC8p", "RL8p", "RR8p", "SLA8p", "SRA8p", "SRL8p", "INC8p",
     "DEC8p"}
OffOpcodes ==
    {"ADD8ao", "ADC8ao", "SUB8ao", "SBC8ao", "AND8ao", "XOR8ao", "OR8ao",
     "RLC8o", "RRC8o", "RL8o", "RR8o", "SLA8o", "SRA8o", "SRL8o", "INC8o",
     "DEC8o"}
CaseOpcodes ==
    {"COPY", "LD8rp", "LD8gp", "LD8ro", "LD8go", "LD8pr", "LD8pg", "LD8or",
     "LD8og", "OR8ar"}
        \cup PushOpcodes \cup AccOpcodes \cup RegOpcodes \cup PtrOpcodes
        \cup OffOpcodes

DoLD8rp ==
    /\ AtOpcode({"LD8rp", "LD8gp"})
    /\ TrackOnly(RuleLoadPtr(SZFlagLoc, mi[I]))
DoLD8ro ==
    /\ AtOpcode({"LD8ro", "LD8go"})
    /\ TrackOnly(RuleLoadOff(SZFlagLoc, mi[I]))
DoLD8pr ==
    /\ AtOpcode({"LD8pr", "LD8pg"})
    /\ TrackOnly(RuleStorePtr(SZFlagLoc, mi[I]))
DoLD8or ==
    /\ AtOpcode({"LD8or", "LD8og"})
    /\ TrackOnly(RuleStoreOff(SZFlagLoc, mi[I]))

\* redundantOR without the test of the tracker.
redundantOR_Always(Loc, MI) == getOperand(MI, 0).reg = A

\* The self-OR that the tracker proves redundant is erased and the case
\* breaks; any other OR8ar falls through to the accumulator rule.
redundantOR(Loc, MI) ==
    getOperand(MI, 0).reg = A /\ matchesRegMI(Loc, MI, 0)

\* After MI.eraseFromParent() the loop still calls clobberDefs(MI, TRI): the
\* registers that read of the erased instruction yields are arbitrary, here
\* none or the tracked register.
DoOR8ar ==
    /\ AtOpcode({"OR8ar"})
    /\ IF redundantOR(SZFlagLoc, mi[I])
       THEN /\ blocks' = eraseFromParent(blocks, I)
            /\ dispLoc' = SZFlagLoc
            /\ \E DefRegs \in {{}, {SZFlagLoc.Reg}} :
                   SZFlagLoc' = clobberDefs(SZFlagLoc, DefRegs)
       ELSE /\ dispLoc' = RuleAcc(SZFlagLoc, mi[I])
            /\ SZFlagLoc' = clobberDefs(RuleAcc(SZFlagLoc, mi[I]), defs(mi[I]))
            /\ UNCHANGED blocks
    /\ Advance
    /\ UNCHANGED <<mi, vregClass, Changed>>

DoAcc ==
    /\ AtOpcode(AccOpcodes)
    /\ TrackOnly(RuleAcc(SZFlagLoc, mi[I]))
DoReg ==
    /\ AtOpcode(RegOpcodes)
    /\ TrackOnly(RuleReg(SZFlagLoc, mi[I]))
DoPtr ==
    /\ AtOpcode(PtrOpcodes)
    /\ TrackOnly(RulePtr(SZFlagLoc, mi[I]))
DoOff ==
    /\ AtOpcode(OffOpcodes)
    /\ TrackOnly(RuleOff(SZFlagLoc, mi[I]))

DoDefault ==
    /\ pc = "loop" /\ I # End /\ mi[I].opc \notin CaseOpcodes
    /\ TrackOnly(RuleDefault(SZFlagLoc, mi[I]))

\* return Changed;
Return ==
    /\ pc = "loop" /\ I = End /\ b = Len(blocks)
    /\ pc' = "done"
    /\ lastMI' = 0
    /\ UNCHANGED <<mi, blocks, mi0, blocks0, hasEZ80Ops, vregClass, b, I,
                   SZFlagLoc, Changed, dispLoc, machine, walked>>

Next ==
    \/ EnterBlock
    \/ DoCOPY
    \/ DoPUSH
    \/ DoLD8rp
    \/ DoLD8ro
    \/ DoLD8pr
    \/ DoLD8or
    \/ DoOR8ar
    \/ DoAcc
    \/ DoReg
    \/ DoPtr
    \/ DoOff
    \/ DoDefault
    \/ Return

Spec == Init /\ [][Next]_vars

(***************************************************************************)
(* A second set of functions: memory-operand arithmetic, stores to stack   *)
(* slots, a copy into the flags register, a redefinition of the base of an *)
(* LEA, and up to MaxBlocks blocks, so that the definition of a virtual    *)
(* register may lie in a block that the layout places after its use.       *)
(***************************************************************************)
MaxBlocks == 3

AlphabetExt ==
    { MkInstr("ADD8ar", 0, TRUE, <<RegOp(B)>>),
      MkInstr("OR8ar", 0, TRUE, <<RegOp(A)>>),
      MkInstr("INC8r", 1, TRUE, <<RegOp(B), RegOp(B)>>),
      MkInstr("ADD8ap", 0, TRUE, <<RegOp(HL)>>),
      MkInstr("INC8o", 0, TRUE, <<RegOp(IX), NumOp(1)>>),
      MkInstr("COPY", 1, TRUE, <<RegOp(F), RegOp(B)>>),
      MkInstr("COPY", 1, FALSE, <<RegOp(SPL), RegOp(HL)>>),
      MkInstr("LD8rp", 1, FALSE, <<RegOp(B), RegOp(HL)>>),
      MkInstr("LD8ro", 1, FALSE, <<RegOp(B), RegOp(IX), NumOp(1)>>),
      MkInstr("LD8pr", 0, FALSE, <<RegOp(HL), RegOp(A)>>),
      MkInstr("LD8or", 0, FALSE, <<RegOp(IX), NumOp(1), RegOp(A)>>),
      MkInstr("LD8or", 0, FALSE, <<NumOp(0), NumOp(1), RegOp(A)>>),
      MkInstr("LD8or", 0, FALSE, <<NumOp(-1), NumOp(1), RegOp(A)>>),
      MkInstr("LEA24ro", 1, FALSE, <<RegOp(V24), RegOp(IX), NumOp(0)>>),
      MkInstr("LD24ri", 1, FALSE, <<RegOp(IX), NumOp(0)>>),
      MkInstr("PUSH24r", 0, FALSE, <<RegOp(V24)>>) }

FuncsExt == UNION {[1..n -> AlphabetExt] : n \in 1..MaxLen}

\* The block of position p when the blocks end after the positions in cuts.
BlockOfPos(cuts, p) == Cardinality({c \in cuts : c < p}) + 1
\* The layouts of n instructions in at most MaxBlocks non-empty blocks.
CutSets(n) == {cuts \in SUBSET (1..(n - 1)) : Cardinality(cuts) < MaxBlocks}
LayoutExt(n, cuts) ==
    [k \in 1..(Cardinality(cuts) + 1) |->
        LET ps == {p \in 1..n : BlockOfPos(cuts, p) = k}
            lo == CHOOSE p \in ps : \A q \in ps : p <= q
        IN  [i \in 1..Cardinality(ps) |-> lo + i - 1]]

\* Every virtual register has one definition; it precedes the use, or lies
\* in a later block than the use when the use is not in the entry block.
IsSSAExt(f, cuts) ==
    /\ Cardinality({i \in 1..Len(f) : V24 \in defs(f[i])}) <= 1
    /\ \A i \in 1..Len(f) :
         (\E j \in (f[i].ndefs + 1)..Len(f[i].ops) :
              f[i].ops[j].isReg /\ f[i].ops[j].reg = V24)
         => \E d \in 1..Len(f) :
                /\ V24 \in defs(f[d])
                /\ \/ d < i
                   \/ /\ BlockOfPos(cuts, i) > 1
                      /\ BlockOfPos(cuts, d) > BlockOfPos(cuts, i)

\* The pass is about to run on one of the functions Fs, cut into blocks.
InitOver(Fs) ==
    /\ \E f \in Fs : \E cuts \in CutSets(Len(f)) :
         /\ IsSSAExt(f, cuts)
         /\ mi = f
         /\ mi0 = f
         /\ blocks = LayoutExt(Len(f), cuts)
         /\ blocks0 = LayoutExt(Len(f), cuts)
         /\ hasEZ80Ops \in (IF HasPush(f) THEN BOOLEAN ELSE {TRUE})
    /\ vregClass = <<"R24">>
    /\ pc = "loop"
    /\ b = 0
    /\ I = End
    /\ SZFlagLoc = ValLoc
    /\ Changed = FALSE
    /\ lastMI = 0
    /\ dispLoc = ValLoc
    /\ machine = EntryState(0)
    /\ walked = << >>

InitExt == InitOver(FuncsExt)

SpecExt == InitExt /\ [][Next]_vars

(***************************************************************************)
(* The walk on functions that take every case of the switch, insert a      *)
(* COPY, erase a self-OR and erase an LEA of any block; with and without   *)
(* fairness.                                                               *)
(***************************************************************************)
AlphabetWalk ==
    { MkInstr("ADD8ar", 0, TRUE, <<RegOp(B)>>),
      MkInstr("OR8ar", 0, TRUE, <<RegOp(A)>>),
      MkInstr("INC8r", 1, TRUE, <<RegOp(B), RegOp(B)>>),
      MkInstr("INC8p", 0, TRUE, <<RegOp(HL)>>),
      MkInstr("INC8o", 0, TRUE, <<RegOp(IX), NumOp(1)>>),
      MkInstr("COPY", 1, FALSE, <<RegOp(SPL), RegOp(HL)>>),
      MkInstr("LD8rp", 1, FALSE, <<RegOp(B), RegOp(HL)>>),
      MkInstr("LD8ro", 1, FALSE, <<RegOp(B), RegOp(IX), NumOp(1)>>),
      MkInstr("LD8pr", 0, FALSE, <<RegOp(HL), RegOp(A)>>),
      MkInstr("LD8or", 0, FALSE, <<RegOp(IX), NumOp(1), RegOp(A)>>),
      MkInstr("LEA24ro", 1, FALSE, <<RegOp(V24), RegOp(IX), NumOp(0)>>),
      MkInstr("PUSH24r", 0, FALSE, <<RegOp(V24)>>) }

FuncsWalk == UNION {[1..n -> AlphabetWalk] : n \in 1..MaxLen}

InitWalk == InitOver(FuncsWalk)

SpecWalk == InitWalk /\ [][Next]_vars

\* The pass is the only thread of its function and runs without suspension
\* points, so a step that can be taken is taken.
FairSpecWalk == SpecWalk /\ WF_vars(Next)

(***************************************************************************)
(* Properties                                                              *)
(***************************************************************************)
\* The locations the tracker asserts and whether they hold the flags' value.
RegHoldsFlags(Reg) == machine.val[Reg] = machine.flags
MemHoldsFlags(c) == machine.mem[c] = machine.flags

\* C1 (tracker soundness): after every fully processed instruction, a
\* register or memory cell that the tracker matches holds the value the
\* sign/zero flags were last set from.
C1_TrackerSound ==
    lastMI # 0 =>
        /\ \A Reg \in ValRegs : matchesReg(SZFlagLoc, Reg) => RegHoldsFlags(Reg)
        /\ \A c \in Cells : matchesMem(SZFlagLoc, c[1], c[2]) => MemHoldsFlags(c)

\* The walk is at a self-OR of the accumulator.
AtSelfOR == AtOpcode({"OR8ar"}) /\ getOperand(mi[I], 0).reg = A

\* MI can make the tracker's register the accumulator.
MaySetRegA(MI) ==
    \/ MI.opc \in AccOpcodes \cup {"OR8ar"}
    \/ /\ MI.opc \in {"COPY", "LD8rp", "LD8gp", "LD8ro", "LD8go"} \cup RegOpcodes
       /\ getOperand(MI, 0).reg = A
\* The instructions of the walked block that precede the cursor.
EarlierInBlock ==
    {blocks0[b][p] : p \in 1..(IndexIn(blocks0[b], I) - 1)}

Unset(Loc) == ~isValid(Loc.Reg) /\ ~isValid(Loc.Base)
Overlapped(Loc, DefRegs) ==
    \E DefReg \in DefRegs : \E LocReg \in {Loc.Reg, Loc.Base} :
        isValid(LocReg) /\ regsOverlap(DefReg, LocReg)

\* C3 (clobber correctness): after the clobber step of an instruction the
\* tracker holds no register and no base that overlaps a register the
\* instruction defines; so a self-OR that directly follows a definition of
\* a register overlapping the accumulator is kept.
C3_ClobberCorrect ==
    /\ [](lastMI # 0 => ~Overlapped(SZFlagLoc, defs(mi0[lastMI])))
    /\ [][(AtSelfOR /\ lastMI # 0
             /\ \E DefReg \in defs(mi0[lastMI]) : regsOverlap(DefReg, A))
          => I \in LiveIds']_vars
\* C3 witness: the tracker held HL as base, the instruction defined L.
C3_Witness ==
    /\ lastMI # 0
    /\ dispLoc.Base = HL
    /\ L \in defs(mi0[lastMI])
    /\ Unset(SZFlagLoc)

\* C4 (no cross-block leakage): the tracker is unset whenever the walk
\* enters a block.
C4_BlockEntryUnset == [][b' # b => Unset(SZFlagLoc')]_vars
\* C4 witness: the second block is entered after a first block that ended
\* with the tracker on the accumulator.
C4_Witness ==
    /\ b = 2 /\ lastMI = 0 /\ pc = "loop"
    /\ mi0[blocks0[1][Len(blocks0[1])]].opc \in AccOpcodes
    /\ Unset(SZFlagLoc)

\* The instruction that precedes id in its block (End if it is the first).
prevInstr(id) ==
    LET blk == blocks[CHOOSE k \in 1..Len(blocks) : id \in Range(blocks[k])]
    IN  IF IndexIn(blk, id) = 1 THEN End ELSE blk[IndexIn(blk, id) - 1]
IsSPCopy(MI) == MI.opc = "COPY" /\ getOperand(MI, 0).reg \in {SPS, SPL}
\* The virtual registers of the function as the pass received it.
OrigVRegs == {V24}

\* id, a COPY into SPS or SPL of the input, is now the store to the stack
\* pointer of a fresh register that the preceding COPY loads from the
\* original source operand.
Legalized(id) ==
    LET IsSPL == getOperand(mi0[id], 0).reg = SPL
        Tmp == mi[id].ops[1].reg
    IN  /\ id \in LiveIds
        /\ mi[id].opc = (IF IsSPL THEN "LD24sa" ELSE "LD16sa")
        /\ Len(mi[id].ops) = 1
        /\ mi[id].ops[1].isReg /\ isVirtual(Tmp) /\ Tmp \notin OrigVRegs
        /\ vregClass[Tmp - VirtRegBase + 1] = (IF IsSPL THEN "A24" ELSE "A16")
        /\ Cardinality(defInstrs(mi, blocks, Tmp)) = 1
        /\ Cardinality(useOperands(mi, blocks, Tmp)) = 1
        /\ prevInstr(id) # End
        /\ mi[prevInstr(id)].opc = "COPY"
        /\ mi[prevInstr(id)].ndefs = 1
        /\ mi[prevInstr(id)].ops = <<RegOp(Tmp), getOperand(mi0[id], 1)>>

\* C5 (stack-pointer legalization): when the pass returns, every COPY into
\* SPS or SPL has become LD16sa or LD24sa of a fresh virtual register of the
\* matching class, directly preceded by a COPY of the original source into
\* that register, and no COPY into SPS or SPL is left.
C5_SPLegalized ==
    pc = "done" =>
        /\ \A id \in 1..Len(mi0) : IsSPCopy(mi0[id]) => Legalized(id)
        /\ \A id \in LiveIds : ~IsSPCopy(mi[id])
C5_Witness ==
    /\ pc = "done"
    /\ \E id \in 1..Len(mi0) : IsSPCopy(mi0[id]) /\ getOperand(mi0[id], 0).reg = SPL
    /\ \E id \in 1..Len(mi0) : IsSPCopy(mi0[id]) /\ getOperand(mi0[id], 0).reg = SPS

\* The LEAs of the width of push MI that define the register it pushes.
LeaDefs(MI) ==
    {d \in defInstrs(mi, blocks, getOperand(MI, 0).reg) :
        mi[d].opc = (IF MI.opc = "PUSH24r" THEN "LEA24ro" ELSE "LEA16ro")}
NumUses(MI) == Cardinality(useOperands(mi, blocks, getOperand(MI, 0).reg))
\* The walk is at a push that the fusion applies to.
AtFusiblePush ==
    /\ AtOpcode(PushOpcodes)
    /\ hasEZ80Ops
    /\ NumUses(mi[I]) = 1
    /\ LeaDefs(mi[I]) # {}

\* C6 (push/LEA fusion result): a push of a register with one use that an
\* LEA of the same width defines becomes a push of the LEA's base register
\* when the base is a register and the offset 0, and a PEA of the same width
\* with the LEA's base and offset otherwise; the LEA is erased and the
\* function has one instruction less.
C6_FusionResult ==
    [][AtFusiblePush =>
          \A d \in LeaDefs(mi[I]) :
             LET BaseMO == getOperand(mi[d], 1)
                 Off == getOperand(mi[d], 2).num
             IN  /\ IF BaseMO.isReg /\ Off = 0
                    THEN /\ mi'[I].opc = mi[I].opc
                         /\ mi'[I].ops = <<RegOp(BaseMO.reg)>>
                    ELSE /\ mi'[I].opc = (IF mi[I].opc = "PUSH24r"
                                          THEN "PEA24o" ELSE "PEA16o")
                         /\ mi'[I].ops = <<BaseMO, NumOp(Off)>>
                 /\ d \notin LiveIds'
                 /\ LiveIds' = LiveIds \ {d}
                 /\ Cardinality(LiveIds') = Cardinality(LiveIds) - 1
      ]_vars
C6_Witness ==
    /\ lastMI # 0
    /\ mi0[lastMI].opc = "PUSH24r"
    /\ mi[lastMI].opc = "PEA24o"
    /\ ~mi[lastMI].ops[1].isReg

\* C7 (push/LEA fusion guard): without the extended instruction subset, or
\* when the pushed register has more than one use, or when no LEA of the
\* push's width defines it, the push leaves every instruction as it is and
\* erases nothing.
C7_FusionGuard ==
    [][(/\ AtOpcode(PushOpcodes)
        /\ \/ ~hasEZ80Ops
           \/ NumUses(mi[I]) > 1
           \/ LeaDefs(mi[I]) = {})
       => mi' = mi /\ blocks' = blocks /\ Changed' = Changed]_vars
\* C7 witness: a push of a register that an LEA defines has been walked and
\* the LEA is still there.
C7_Witness ==
    /\ lastMI # 0
    /\ mi[lastMI].opc = "PUSH24r"
    /\ hasEZ80Ops
    /\ LeaDefs(mi[lastMI]) # {}
    /\ NumUses(mi[lastMI]) > 1

\* C8 (change report): the pass returns true if and only if it changed the
\* instruction stream.
C8_ChangeReport ==
    pc = "done" => (Changed <=> (mi # mi0 \/ blocks # blocks0))

\* C9 (no read after deletion): the instruction handed to clobberDefs is
\* still in its block.
C9_NoReadAfterErase == lastMI # 0 => lastMI \in LiveIds

\* C10 (setReg and setMem replace the held fact): the tracker never matches
\* a register and a memory location at once.
C10_OneFact ==
    \A Reg \in ValRegs : \A c \in Cells :
        ~(matchesReg(SZFlagLoc, Reg) /\ matchesMem(SZFlagLoc, c[1], c[2]))


\* The architectural destination of the result of the flags-producing
\* instruction MI, recorded on the tracker Loc.
ArchDest(Loc, MI) ==
    IF MI.opc \in AccOpcodes \cup AccResultOpcodes \cup {"OR8ar"}
    THEN setReg(Loc, A)
    ELSE IF MI.opc \in RegOpcodes THEN setRegMI(Loc, MI, 0)
    ELSE IF MI.opc \in PtrOpcodes THEN setPtr(Loc, MI, 0)
    ELSE setOff(Loc, MI, 0)

\* C11 (destination-only tracking): the location a flags-producing
\* arithmetic, logic, rotate, shift, increment or decrement instruction
\* sets on the tracker is the architectural destination of its result: the
\* accumulator for add/adc/sub/sbc/and/xor/or in every addressing mode, the
\* addressed register or cell for the others; never an operand only read.
C11_DestinationOnly ==
    [][AtOpcode(AccOpcodes \cup RegOpcodes \cup PtrOpcodes \cup OffOpcodes
                  \cup {"OR8ar"})
       => dispLoc' = ArchDest(SZFlagLoc, mi[I])]_vars

\* C12 (a set survives the instruction's own clobber step): after a
\* rotate, shift, increment or decrement of a register has been completely
\* processed, the tracker matches that instruction's destination register.
C12_SetSurvivesClobber ==
    (lastMI # 0 /\ mi0[lastMI].opc \in RegOpcodes)
    => matchesRegMI(SZFlagLoc, mi0[lastMI], 0)

\* The walk is at a COPY, not into SPS/SPL, whose source the tracker
\* matches, or at an 8-bit load whose source address the tracker matches.
AtPropagatingCopy ==
    /\ AtOpcode({"COPY"})
    /\ getOperand(mi[I], 0).reg \notin {SPS, SPL}
    /\ matchesRegMI(SZFlagLoc, mi[I], 1)
AtPropagatingLoad ==
    \/ AtOpcode({"LD8rp", "LD8gp"}) /\ matchesPtr(SZFlagLoc, mi[I], 1)
    \/ AtOpcode({"LD8ro", "LD8go"}) /\ matchesOff(SZFlagLoc, mi[I], 1)

\* C13 (propagation into a register): when the tracker matches the source
\* of such a COPY or load as the walk reaches it, then after the
\* instruction is completely processed, clobber step included, the tracker
\* matches the instruction's destination register.
C13_PropagateToReg ==
    [][(AtPropagatingCopy \/ AtPropagatingLoad)
       => matchesRegMI(SZFlagLoc', mi[I], 0)]_vars

\* The opcodes the flag-location rules cover: loads, stores and the
\* flags-producing arithmetic, logic, rotate, shift, increment, decrement.
FlagRuleOpcodes ==
    {"LD8rp", "LD8gp", "LD8ro", "LD8go", "LD8pr", "LD8pg", "LD8or", "LD8og",
     "OR8ar"} \cup AccOpcodes \cup RegOpcodes \cup PtrOpcodes \cup OffOpcodes

\* C15 (unanalyzed flag writers clear the tracker): after processing an
\* instruction that writes the flags register and is not one of the
\* opcodes covered by the flag-location rules (a compare, a 16-bit add, a
\* copy into the flags register), the tracker matches no register and no
\* memory location.
C15_FlagWriterClears ==
    (lastMI # 0 /\ mi0[lastMI].modF /\ mi0[lastMI].opc \notin FlagRuleOpcodes)
    => Unset(SZFlagLoc)

\* The walk is at an 8-bit store whose source register the tracker matches.
AtPropagatingStorePtr ==
    AtOpcode({"LD8pr", "LD8pg"}) /\ matchesRegMI(SZFlagLoc, mi[I], 1)
AtPropagatingStoreOff ==
    AtOpcode({"LD8or", "LD8og"}) /\ matchesRegMI(SZFlagLoc, mi[I], 2)
\* The base operand of the offset-indirect MI is a register or the frame
\* index of a stack slot that index2StackSlot can name.
NameableBase(MI) == getOperand(MI, 0).isReg \/ getOperand(MI, 0).num >= 0

\* C14 as stated (propagation into memory, every kind of base): when the
\* tracker matches the source register of an 8-bit store as the walk
\* reaches it, then after the store is completely processed the tracker
\* matches the destination address, (base, 0) or (base, offset), whatever
\* the base operand is, a frame index included.
C14_PropagateToMem_AnyBase ==
    [][/\ AtPropagatingStorePtr => matchesPtr(SZFlagLoc', mi[I], 0)
       /\ AtPropagatingStoreOff => matchesOff(SZFlagLoc', mi[I], 0)]_vars

\* C14 (propagation into memory): when the tracker matches the source
\* register of an 8-bit store as the walk reaches it, then after the store
\* is completely processed the tracker matches the destination address,
\* (base, 0) for register-indirect and (base, offset) for offset-indirect
\* with a register base or a frame index that is not negative; after a
\* store to a negative frame index the tracker matches no memory location.
C14_PropagateToMem ==
    [][/\ AtPropagatingStorePtr => matchesPtr(SZFlagLoc', mi[I], 0)
       /\ (AtPropagatingStoreOff /\ NameableBase(mi[I]))
          => /\ matchesOff(SZFlagLoc', mi[I], 0)
             /\ SZFlagLoc'.Base =
                  (IF getOperand(mi[I], 0).isReg THEN getOperand(mi[I], 0).reg
                   ELSE index2StackSlot(getOperand(mi[I], 0).num))
       /\ (AtPropagatingStoreOff /\ ~NameableBase(mi[I]))
          => ~isValid(SZFlagLoc'.Base)]_vars
\* C14 witness: a store of the accumulator, which the tracker matched, to a
\* negative frame index has been processed and left no memory location.
C14_Witness ==
    /\ lastMI # 0
    /\ mi0[lastMI].opc = "LD8or"
    /\ ~NameableBase(mi0[lastMI])
    /\ matchesRegMI(SZFlagLoc, mi0[lastMI], 2)
    /\ ~isValid(SZFlagLoc.Base)

\* The block that holds the instruction id.
BlockOf(id) == CHOOSE k \in 1..Len(blocks) : id \in Range(blocks[k])
\* The instructions that execute after d and before p on every path from
\* d to p: those between them when one block holds both, else the rest of
\* d's block and the part of p's block that precedes p.
Between(d, p) ==
    LET bd == blocks[BlockOf(d)]
        bp == blocks[BlockOf(p)]
    IN  IF BlockOf(d) = BlockOf(p)
        THEN {bd[q] : q \in (IndexIn(bd, d) + 1)..(IndexIn(bd, p) - 1)}
        ELSE {bd[q] : q \in (IndexIn(bd, d) + 1)..Len(bd)}
             \cup {bp[q] : q \in 1..(IndexIn(bp, p) - 1)}

\* C18 (fusion preserves the pushed value): whenever the fusion fires, no
\* instruction between the deleted LEA and the push defines a register
\* overlapping the LEA's base register, so the rewritten push pushes the
\* address the LEA computed.
C18_FusionPreservesValue ==
    [][AtFusiblePush =>
          \A d \in LeaDefs(mi[I]) :
             getOperand(mi[d], 1).isReg =>
                \A x \in Between(d, I) : \A DefReg \in defs(mi[x]) :
                    ~regsOverlap(DefReg, getOperand(mi[d], 1).reg)]_vars

\* The instructions of the function as the pass received it.
InputIds == 1..Len(mi0)

\* C16 (totality of the walk): the pass terminates and returns; every
\* instruction of the input is dispatched at most once, and exactly once
\* when it is still in its block as the walk reaches it; the temporary COPY
\* that the legalization of a copy into SPS/SPL inserts is never dispatched.
C16_Totality ==
    /\ <>(pc = "done")
    /\ [](/\ \A j, k \in 1..Len(walked) : walked[j] = walked[k] => j = k
          /\ Range(walked) \subseteq InputIds
          /\ pc = "done" => \A id \in InputIds \cap LiveIds :
                                id \in Range(walked))
\* C16 witness: the pass has returned after legalizing a copy into SPL; the
\* inserted COPY is in the function and an LEA was erased before the walk
\* reached it.
C16_Witness ==
    /\ pc = "done"
    /\ \E id \in LiveIds \ InputIds : mi[id].opc = "COPY"
    /\ \E id \in InputIds \ LiveIds :
           mi0[id].opc = "LEA24ro" /\ id \notin Range(walked)

\* C17 (the iteration position stays valid): at every step of the walk the
\* cursor designates an instruction of the block being walked, or the block
\* end; no deletion (the self-OR, the LEA of a fusion wherever it lies)
\* removes the instruction the cursor designates.
C17_CursorValid ==
    /\ []((pc = "loop" /\ b >= 1) => (I = End \/ I \in Range(blocks[b])))
    /\ [][(pc = "loop" /\ LiveIds \ LiveIds' # {})
          => (I' = End \/ I' \in LiveIds')]_vars
\* C17 witness: the push just dispatched was fused with an LEA that was
\* erased from a block laid out after the one being walked.
C17_Witness ==
    /\ pc = "loop" /\ lastMI # 0
    /\ mi0[lastMI].opc = "PUSH24r" /\ mi[lastMI] # mi0[lastMI]
    /\ \E d \in InputIds \ LiveIds :
           /\ mi0[d].opc = "LEA24ro"
           /\ \E k \in (b + 1)..Len(blocks0) : d \in Range(blocks0[k])

\* The instructions the rewrites may touch: a COPY into SPS/SPL, a push, an
\* LEA, a self-OR of the accumulator.
IsLEA(MI) == MI.opc \in {"LEA16ro", "LEA24ro"}
IsSelfOR(MI) == MI.opc = "OR8ar" /\ getOperand(MI, 0).reg = A
\* The instructions of block k that the pass received, in their order now.
InputOrderNow(k) == SelectSeq(blocks[k], LAMBDA x : x \in InputIds)
\* The instructions of block k still present, in the order they came in.
InputOrderThen(k) == SelectSeq(blocks0[k], LAMBDA x : x \in LiveIds)

\* C19 (frame of the rewrites): every instruction other than a COPY into
\* SPS/SPL, a push that the fusion rewrites, an LEA that the fusion
\* deletes, and a self-OR deleted as redundant is present with the same
\* opcode and operands and in the same relative order; the tracker-only
\* rules (loads, stores, arithmetic, logic, shifts, the default case) never
\* change the instruction stream.
C19_Frame ==
    /\ [](/\ \A id \in InputIds :
               /\ id \notin LiveIds => IsLEA(mi0[id]) \/ IsSelfOR(mi0[id])
               /\ (id \in LiveIds /\ mi[id] # mi0[id])
                  => IsSPCopy(mi0[id]) \/ mi0[id].opc \in PushOpcodes
          /\ \A k \in 1..Len(blocks0) : InputOrderNow(k) = InputOrderThen(k))
    /\ [][(pc = "loop" /\ I # End
             /\ mi[I].opc \notin PushOpcodes \cup {"COPY", "OR8ar"})
          => (mi' = mi /\ blocks' = blocks)]_vars
\* C19 witness: the pass has returned after a legalization, with an
\* instruction of the input before the legalized copy and one after it.
C19_Witness ==
    /\ pc = "done"
    /\ \E k \in 1..Len(blocks) : \E p \in 2..(Len(blocks[k]) - 2) :
           /\ blocks[k][p] \notin InputIds
           /\ mi[blocks[k][p - 1]] = mi0[blocks[k][p - 1]]
           /\ mi[blocks[k][p + 2]] = mi0[blocks[k][p + 2]]
           /\ blocks[k][p - 1] \in InputIds /\ blocks[k][p + 2] \in InputIds

\* C20 (no dangling use after fusion): when the pass returns, no remaining
\* instruction uses the register an erased LEA defined; whenever an
\* instruction that defines a register is erased, no use of that register
\* is left.
C20_NoDanglingUse ==
    /\ [](pc = "done" =>
            \A d \in InputIds \ LiveIds : \A Reg \in defs(mi0[d]) :
                useOperands(mi, blocks, Reg) = {})
    /\ [][\A d \in LiveIds \ LiveIds' : \A Reg \in defs(mi[d]) :
             useOperands(mi', blocks', Reg) = {}]_vars
\* C20 witness: the pass has returned after a fusion erased the LEA.
C20_Witness ==
    /\ pc = "done"
    /\ \E d \in InputIds \ LiveIds : IsLEA(mi0[d])
    /\ \E id \in LiveIds : mi0[id].opc = "PUSH24r" /\ mi[id] # mi0[id]
====
